---- MODULE Spec2Model ----
(***************************************************************************)
(* Model of the Chevrolet price dashboard (src/app.py): the credential     *)
(* store (users table, bcrypt hashing, login/register forms), the session  *)
(* flags, and the cached spreadsheet fetch (st.cache_data, ttl = 600) with *)
(* its post-fetch normalisation, filtering and aggregation.                *)
(*                                                                         *)
(* Python strings are sequences of one-character strings, so that lower(), *)
(* endswith(), len(), the regex replacement and numeric parsing are        *)
(* computed character by character as the code computes them.              *)
(***************************************************************************)
EXTENDS Integers, Sequences, FiniteSets, TLC

VARIABLES
    conn,        \* the cached result of init_connection(): TRUE = a connection, FALSE = None
    users,       \* the users table: stored email -> [password_hash, name]
    logged_in,   \* st.session_state.logged_in
    user_email,  \* st.session_state.user_email
    user_name,   \* st.session_state.user_name
    cache,       \* the st.cache_data entry of load_data_from_sheet: NoEntry or [value, stamp]
    now,         \* the clock, in seconds
    rerun,       \* TRUE when st.rerun() was called and the script has not run again yet
    df,          \* the script's df of the last run (NotComputed when the run did not load it)
    view,        \* the script's derived objects of the last run (df_filtered, df_chart, metrics)
    fetches,     \* how many times the last script run executed the body of load_data_from_sheet
    lastOp,      \* the last step and its inputs
    result,      \* what the last step reported to its caller
    registered   \* history: stored email -> the password create_user hashed for it

vars == <<conn, users, logged_in, user_email, user_name, cache, now, rerun,
          df, view, fetches, lastOp, result, registered>>

(***************************************************************************)
(* Bounds of the model.                                                    *)
(***************************************************************************)
MaxTicks == 2
TickSeconds == 300

(***************************************************************************)
(* Program constants.                                                      *)
(***************************************************************************)
TTL == 600
MinPasswordLen == 6

\* Python's None where a str is expected (session fields)
NoneStr == <<"None">>
\* an empty pandas DataFrame
EmptyDF == << >>
\* a float cell: NaN, or a number
NaN == [isnan |-> TRUE, v |-> 0]
Num(n) == [isnan |-> FALSE, v |-> n]

(***************************************************************************)
(* Strings.                                                                *)
(***************************************************************************)
UpperChars == <<"A", "B", "C", "D", "E", "F", "G", "H", "I", "J", "K", "L", "M",
                "N", "O", "P", "Q", "R", "S", "T", "U", "V", "W", "X", "Y", "Z">>
LowerChars == <<"a", "b", "c", "d", "e", "f", "g", "h", "i", "j", "k", "l", "m",
                "n", "o", "p", "q", "r", "s", "t", "u", "v", "w", "x", "y", "z">>
Digits == <<"0", "1", "2", "3", "4", "5", "6", "7", "8", "9">>

IndexIn(c, chars) ==
    IF \E i \in 1..Len(chars) : chars[i] = c
    THEN CHOOSE i \in 1..Len(chars) : chars[i] = c
    ELSE 0

\* str.lower()
lower(s) ==
    [i \in 1..Len(s) |->
        IF IndexIn(s[i], UpperChars) > 0 THEN LowerChars[IndexIn(s[i], UpperChars)] ELSE s[i]]

\* str.endswith(suffix)
endswith(s, suffix) ==
    /\ Len(s) >= Len(suffix)
    /\ SubSeq(s, Len(s) - Len(suffix) + 1, Len(s)) = suffix

\* Python truthiness of a str
Truthy(s) == Len(s) > 0

EmailA == <<"a", "@", "g", "m", "a", "i", "l", ".", "c", "o", "m">>
EmailAMixed == <<"A", "@", "G", "m", "a", "i", "l", ".", "c", "o", "m">>
EmailB == <<"b", "@", "b", "o", "t", "a", "f", "o", "g", "o", ".", "c", "o", "m", ".", "b", "r">>
EmailOther == <<"c", "@", "n", "o", "t", "g", "m", "a", "i", "l", ".", "c", "o", "m">>
Pw1 == <<"a", "b", "c", "d", "e", "f">>
Pw2 == <<"a", "b", "c", "d", "e", "g">>
PwShort == <<"a", "b", "c", "d", "e">>
EmptyStr == << >>

\* what a user can type in the forms
EmailInputs == {EmailA, EmailAMixed, EmailB, EmailOther, EmptyStr}
PasswordInputs == {Pw1, Pw2, PwShort}
ConfirmInputs == {Pw1, Pw2, PwShort}
LoginPasswords == {Pw1, Pw2}
NameInputs == {"Ana", ""}
\* the salts bcrypt.gensalt() can draw
Salts == {"s1", "s2"}

DOMINIOS_PERMITIDOS ==
    << <<"b", "o", "t", "a", "f", "o", "g", "o", ".", "c", "o", "m", ".", "b", "r">>,
       <<"g", "m", "a", "i", "l", ".", "c", "o", "m">> >>

\* any(email.endswith(f"@{domain}") for domain in DOMINIOS_PERMITIDOS)
is_domain_allowed(email) ==
    \E i \in 1..Len(DOMINIOS_PERMITIDOS) : endswith(email, <<"@">> \o DOMINIOS_PERMITIDOS[i])

(***************************************************************************)
(* bcrypt.  A hash carries its salt and the digest of (salt, password);    *)
(* checkpw recomputes the digest with the salt of the stored hash.         *)
(* Passwords of the model are shorter than bcrypt's 72-byte input limit.   *)
(***************************************************************************)
bcrypt_hashpw(password, salt) == [salt |-> salt, digest |-> <<salt, password>>]

hash_password(password, salt) == bcrypt_hashpw(password, salt)

\* a verification that accepts every password
verify_password_skip(password, hashed_password) == TRUE

\* a verification that hashes with a salt of its own instead of the stored one
verify_password_resalt(password, hashed_password) ==
    bcrypt_hashpw(password, "s0") = hashed_password

verify_password(password, hashed_password) ==
    bcrypt_hashpw(password, hashed_password.salt) = hashed_password

(***************************************************************************)
(* The remote sheet and the post-fetch normalisation.                      *)
(***************************************************************************)
RawRow(modelo, ano, preco) == [Modelo |-> modelo, Ano |-> ano, Preco |-> preco]

Sheet1 ==
    << RawRow("Onix", <<"2", "0", "2", "1">>,
              <<"R", "$", " ", "1", ".", "2", "3", "4", ",", "5", "6">>),
       RawRow("Onix", << >>, <<"N", "/", "A">>),
       RawRow("Tracker", <<"2", "0", "2", "1">>,
              <<"R", "$", " ", "8", "5", ".", "9", "9", "0">>) >>

\* what worksheet.get_all_records() can return: the sheet's rows, or none
Sheets == {Sheet1, << >>}

\* what one execution of the body of load_data_from_sheet can meet
FetchOutcomes ==
    {[kind |-> "secret_missing", rows |-> << >>], [kind |-> "remote_error", rows |-> << >>]}
    \cup {[kind |-> "records", rows |-> s] : s \in Sheets}

\* the cell without its leading and trailing blanks
RECURSIVE StripSpaces(_)
StripSpaces(s) ==
    IF Len(s) = 0 THEN s
    ELSE IF s[1] = " " THEN StripSpaces(SubSeq(s, 2, Len(s)))
    ELSE IF s[Len(s)] = " " THEN StripSpaces(SubSeq(s, 1, Len(s) - 1))
    ELSE s

RECURSIVE DigitsValue(_)
DigitsValue(s) ==
    IF Len(s) = 0 THEN 0
    ELSE DigitsValue(SubSeq(s, 1, Len(s) - 1)) * 10 + (IndexIn(s[Len(s)], Digits) - 1)

\* pd.to_numeric(..., errors='coerce') of one cell holding an unsigned integer
\* literal, surrounding blanks ignored; anything else is coerced to NaN
to_numeric(s) ==
    LET t == StripSpaces(s)
    IN  IF Len(t) > 0 /\ \A i \in 1..Len(t) : IndexIn(t[i], Digits) > 0
        THEN Num(DigitsValue(t))
        ELSE NaN

\* .str.replace(r'[R$.,]', '', regex=True)
PriceCharsRemoved == {"R", "$", ".", ","}
str_replace_price(s) == SelectSeq(s, LAMBDA c : c \notin PriceCharsRemoved)

\* pd.to_numeric(df['Ano'], errors='coerce').fillna(0).astype(int)
coerce_ano(s) == IF to_numeric(s).isnan THEN 0 ELSE to_numeric(s).v

preco_numerico(s) == to_numeric(str_replace_price(s))

normalize(rows) ==
    [i \in 1..Len(rows) |->
        [Modelo |-> rows[i].Modelo,
         Ano |-> coerce_ano(rows[i].Ano),
         Preco |-> rows[i].Preco,
         PrecoNumerico |-> preco_numerico(rows[i].Preco)]]

\* the body of load_data_from_sheet: the frame it returns.  An empty record
\* list has no 'Ano' column, so df['Ano'] raises KeyError, caught at line 154.
NormalizedOf == [rows \in Sheets |-> normalize(rows)]

load_body(outcome) ==
    IF outcome.kind = "records" /\ Len(outcome.rows) > 0
    THEN NormalizedOf[outcome.rows]
    ELSE EmptyDF

fetch_failed(outcome) == outcome.kind # "records"

\* the outcome argument of a run served from the cache, which meets none
NoFetch == [kind |-> "records", rows |-> << >>]

(***************************************************************************)
(* Filtering and aggregation of one script run (app.py lines 265-339).     *)
(***************************************************************************)
\* df['Modelo'].unique(), df['Ano'].unique()
all_models(frame) == {frame[i].Modelo : i \in 1..Len(frame)}
all_years(frame) == {frame[i].Ano : i \in 1..Len(frame)}

\* df[(df['Modelo'].isin(selected_models)) & (df['Ano'].isin(selected_years))].copy()
filter_rows(frame, selected_models, selected_years) ==
    SelectSeq(frame, LAMBDA r : r.Modelo \in selected_models /\ r.Ano \in selected_years)

RECURSIVE SumPresent(_)
SumPresent(frame) ==
    IF Len(frame) = 0 THEN 0
    ELSE (IF frame[1].PrecoNumerico.isnan THEN 0 ELSE frame[1].PrecoNumerico.v)
         + SumPresent(SubSeq(frame, 2, Len(frame)))

CountPresent(frame) == Cardinality({i \in 1..Len(frame) : ~frame[i].PrecoNumerico.isnan})

\* Series.mean(): the mean of the values present, as the fraction sum / n; NaN when none
mean(frame) ==
    IF CountPresent(frame) = 0
    THEN [isnan |-> TRUE, sum |-> 0, n |-> 0]
    ELSE [isnan |-> FALSE, sum |-> SumPresent(frame), n |-> CountPresent(frame)]

\* Series.max(): the largest value present; NaN when none
max(frame) ==
    IF CountPresent(frame) = 0 THEN NaN
    ELSE LET present == {frame[i].PrecoNumerico.v :
                            i \in {j \in 1..Len(frame) : ~frame[j].PrecoNumerico.isnan}}
         IN  Num(CHOOSE m \in present : \A x \in present : x <= m)

\* df_filtered.groupby('Modelo')['Preço Numérico'].mean()
groupby_mean(frame) ==
    [m \in all_models(frame) |-> mean(SelectSeq(frame, LAMBDA r : r.Modelo = m))]

\* st.dataframe(df_filtered.drop(columns=['Preço Numérico'], errors='ignore'))
drop_preco_numerico(frame) ==
    [i \in 1..Len(frame) |->
        [Modelo |-> frame[i].Modelo, Ano |-> frame[i].Ano, Preco |-> frame[i].Preco]]

NoMean == [isnan |-> TRUE, sum |-> 0, n |-> 0]

\* what the run shows when df is empty (line 354) or was not loaded
NoView ==
    [shown |-> FALSE, df_filtered |-> << >>, total_carros |-> 0, preco_medio |-> NoMean,
     preco_max |-> NaN, df_chart |-> << >>, table |-> << >>]

\* the derived objects of a run whose df is not empty
render_view(frame, selected_models, selected_years) ==
    LET df_filtered == filter_rows(frame, selected_models, selected_years)
    IN  [shown |-> TRUE,
         df_filtered |-> df_filtered,
         total_carros |-> Len(df_filtered),
         preco_medio |-> IF Len(df_filtered) > 0 THEN mean(df_filtered) ELSE NoMean,
         preco_max |-> IF Len(df_filtered) > 0 THEN max(df_filtered) ELSE NaN,
         df_chart |-> IF Len(df_filtered) > 0 THEN groupby_mean(df_filtered) ELSE << >>,
         table |-> drop_preco_numerico(df_filtered)]

(***************************************************************************)
(* The credential store (app.py lines 52-79).                              *)
(***************************************************************************)
NoUser == [found |-> FALSE, email |-> NoneStr, password_hash |-> bcrypt_hashpw(<< >>, "s0"),
           name |-> "None"]

\* get_user(email): the row, or None when there is no connection, no such row, or
\* the query raised (fault), which line 61 turns into None as well
get_user(email, fault) ==
    IF ~conn \/ fault \/ email \notin DOMAIN users
    THEN NoUser
    ELSE [found |-> TRUE, email |-> email, password_hash |-> users[email].password_hash,
          name |-> users[email].name]

insert_user(table, email, password_hash, name) ==
    [e \in DOMAIN table \cup {email} |->
        IF e = email THEN [password_hash |-> password_hash, name |-> name] ELSE table[e]]

\* a create_user that overwrites the row of an email already stored
create_user_upsert(email, password, name, salt, fault) ==
    IF ~conn THEN [ret |-> "Falha na conexao com o banco de dados.", table |-> users]
    ELSE IF fault THEN [ret |-> "Erro ao criar usuario", table |-> users]
    ELSE [ret |-> "True", table |-> insert_user(users, email, hash_password(password, salt), name)]

\* create_user(email, password, name): what it returns and the table it leaves.
\* The INSERT raises IntegrityError when the email is already stored (the
\* unique email of the users table); any other exception is a fault.
create_user(email, password, name, salt, fault) ==
    IF ~conn THEN [ret |-> "Falha na conexao com o banco de dados.", table |-> users]
    ELSE IF fault THEN [ret |-> "Erro ao criar usuario", table |-> users]
    ELSE IF email \in DOMAIN users THEN [ret |-> "Email ja cadastrado.", table |-> users]
    ELSE [ret |-> "True", table |-> insert_user(users, email, hash_password(password, salt), name)]

(***************************************************************************)
(* The cache of load_data_from_sheet (st.cache_data(ttl=600)).             *)
(***************************************************************************)
NoEntry == [present |-> FALSE, value |-> << >>, stamp |-> 0]
NotLoaded == [loaded |-> FALSE, rows |-> << >>]

\* a cache that never serves its entry
is_fresh_never(entry, t) == FALSE

\* an entry is served while its age is below the ttl
is_fresh(entry, t) == entry.present /\ t - entry.stamp < TTL

\* lower() of every text the forms can receive, computed once
LowerOf == [typed \in EmailInputs |-> lower(typed)]

\* a step: its kind, the email its form passed on (lower-cased), whether the
\* email was typed with upper-case letters, the password typed, and whether the
\* store (or the remote sheet) failed during it
Op(op, typed, password, fault) ==
    [op |-> op, email |-> LowerOf[typed], mixed |-> typed # LowerOf[typed],
     password |-> password, fault |-> fault]

NoInput == Op("start", << >>, << >>, FALSE)

Init ==
    /\ conn \in BOOLEAN
    /\ users = << >>
    /\ logged_in = FALSE
    /\ user_email = NoneStr
    /\ user_name = "None"
    /\ cache = NoEntry
    /\ now = 0
    /\ rerun = FALSE
    /\ df = NotLoaded
    /\ view = NoView
    /\ fetches = 0
    /\ lastOp = NoInput
    /\ result = "start"
    /\ registered = << >>

\* a run of the public branch loads and derives nothing
PublicRun == df' = NotLoaded /\ view' = NoView /\ fetches' = 0

\* st.text_input("Email", key="login_email").lower()
\* (the text as typed, were .lower() missing)
login_email_raw(typed) == typed
login_email(typed) == LowerOf[typed]

\* st.text_input("Email Corporativo").lower()
register_email(typed) == LowerOf[typed]

(***************************************************************************)
(* render_login with the form submitted (lines 173-201).                   *)
(***************************************************************************)
Login(typed, password, fault) ==
    /\ ~logged_in /\ ~rerun
    /\ PublicRun
    /\ UNCHANGED <<conn, users, cache, now, registered>>
    /\ IF ~conn
       THEN /\ typed = << >> /\ password = Pw1 /\ ~fault
            /\ lastOp' = Op("login", typed, password, fault)
            /\ result' = "Unavailable"
            /\ UNCHANGED <<logged_in, user_email, user_name, rerun>>
       ELSE LET email == login_email(typed)
                user == get_user(email, fault)
            IN  /\ lastOp' = Op("login", typed, password, fault)
                /\ IF ~(Truthy(email) /\ Truthy(password))
                   THEN /\ ~fault
                        /\ result' = "EmptyFields"
                        /\ UNCHANGED <<logged_in, user_email, user_name, rerun>>
                   ELSE IF ~user.found
                   THEN /\ result' = "NotFound"
                        /\ UNCHANGED <<logged_in, user_email, user_name, rerun>>
                   ELSE IF verify_password(password, user.password_hash)
                   THEN /\ result' = "Success"
                        /\ logged_in' = TRUE
                        /\ user_email' = user.email
                        /\ user_name' = user.name
                        /\ rerun' = TRUE
                   ELSE /\ result' = "WrongPassword"
                        /\ UNCHANGED <<logged_in, user_email, user_name, rerun>>

(***************************************************************************)
(* render_register with the form submitted (lines 207-241).                *)
(***************************************************************************)
\* is_domain_allowed of every lower-cased text the form can receive, computed once
DomainAllowedOf == [typed \in EmailInputs |-> is_domain_allowed(LowerOf[typed])]

\* the submission gets as far as comparing the two password fields (line 231)
passwords_read(name, typed) == conn /\ DomainAllowedOf[typed] /\ name # ""

\* the form passes the four checks of lines 224-234 and reaches create_user
register_valid(name, typed, password, password_confirm) ==
    /\ conn
    /\ DomainAllowedOf[typed]
    /\ name # "" /\ Truthy(register_email(typed)) /\ Truthy(password)
    /\ Truthy(password_confirm)
    /\ password = password_confirm
    /\ Len(password) >= MinPasswordLen

Register(name, typed, password, password_confirm, salt, fault) ==
    /\ ~logged_in /\ ~rerun
    /\ PublicRun
    /\ UNCHANGED <<conn, logged_in, user_email, user_name, cache, now, rerun>>
    /\ IF ~conn
       THEN /\ name = "" /\ typed = << >> /\ password = Pw1 /\ password_confirm = Pw1
            /\ salt = "s1" /\ ~fault
            /\ lastOp' = Op("register", typed, << >>, fault)
            /\ result' = "Unavailable"
            /\ UNCHANGED <<users, registered>>
       ELSE LET email == register_email(typed)
                made == create_user(email, password, name, salt, fault)
                valid == register_valid(name, typed, password, password_confirm)
            IN  /\ lastOp' = Op("register", typed, << >>, fault)
                /\ valid \/ (salt = "s1" /\ ~fault)
                /\ passwords_read(name, typed) \/ (password = Pw1 /\ password_confirm = Pw1)
                /\ result' =
                      IF ~DomainAllowedOf[typed] THEN "DomainNotAllowed"
                      ELSE IF ~(name # "" /\ Truthy(email) /\ Truthy(password)
                                /\ Truthy(password_confirm)) THEN "EmptyFields"
                      ELSE IF password # password_confirm THEN "PasswordMismatch"
                      ELSE IF Len(password) < MinPasswordLen THEN "PasswordTooShort"
                      ELSE made.ret
                /\ users' = IF valid THEN made.table ELSE users
                /\ registered' =
                      IF valid /\ made.ret = "True"
                      THEN [e \in DOMAIN registered \cup {email} |->
                               IF e = email THEN password ELSE registered[e]]
                      ELSE registered

(***************************************************************************)
(* The Logout button (line 247) and the public run that follows.           *)
(***************************************************************************)
\* a Logout that resets the flag and keeps the identity of the user
LogoutKeepsIdentity ==
    /\ logged_in /\ ~rerun
    /\ logged_in' = FALSE
    /\ UNCHANGED <<user_email, user_name>>
    /\ PublicRun
    /\ lastOp' = Op("logout", << >>, << >>, FALSE)
    /\ result' = "LoggedOut"
    /\ UNCHANGED <<conn, users, cache, now, rerun, registered>>

Logout ==
    /\ logged_in /\ ~rerun
    /\ logged_in' = FALSE
    /\ user_email' = NoneStr
    /\ user_name' = "None"
    /\ PublicRun
    /\ lastOp' = Op("logout", << >>, << >>, FALSE)
    /\ result' = "LoggedOut"
    /\ UNCHANGED <<conn, users, cache, now, rerun, registered>>

(***************************************************************************)
(* A run of the dashboard branch (lines 245-354): load_data_from_sheet()   *)
(* through the cache, the filters, the metrics, the chart, the table, and  *)
(* the Recarregar Dados button, which is drawn only when df is not empty.  *)
(***************************************************************************)
\* what load_data_from_sheet() returns through st.cache_data, and the entry it leaves
cached_load(entry, t, outcome) ==
    IF is_fresh(entry, t)
    THEN [value |-> entry.value, entry |-> entry, executed |-> 0]
    ELSE [value |-> load_body(outcome),
          entry |-> [present |-> TRUE, value |-> load_body(outcome), stamp |-> t],
          executed |-> 1]

\* a run whose filtered frame is written back into the cached frame
DashboardInPlace(outcome, selected_models, selected_years, reload) ==
    LET got == cached_load(cache, now, outcome)
        clicked == reload /\ Len(got.value) > 0
    IN  /\ logged_in
        /\ rerun => ~reload
        /\ selected_models \subseteq all_models(got.value)
        /\ selected_years \subseteq all_years(got.value)
        /\ df' = [loaded |-> TRUE, rows |-> got.value]
        /\ view' = IF Len(got.value) > 0
                   THEN render_view(got.value, selected_models, selected_years)
                   ELSE NoView
        /\ fetches' = got.executed
        /\ cache' = IF clicked THEN NoEntry
                    ELSE [got.entry EXCEPT !.value =
                             filter_rows(got.value, selected_models, selected_years)]
        /\ rerun' = clicked
        /\ lastOp' = Op(IF clicked THEN "reload" ELSE "dashboard", << >>, << >>,
                        got.executed = 1 /\ fetch_failed(outcome))
        /\ result' = IF got.executed = 0 THEN "Cached" ELSE outcome.kind
        /\ UNCHANGED <<conn, users, logged_in, user_email, user_name, now, registered>>

Dashboard(outcome, selected_models, selected_years, reload) ==
    LET got == cached_load(cache, now, outcome)
        clicked == reload /\ Len(got.value) > 0
    IN  /\ logged_in
        /\ rerun => ~reload
        /\ selected_models \subseteq all_models(got.value)
        /\ selected_years \subseteq all_years(got.value)
        /\ df' = [loaded |-> TRUE, rows |-> got.value]
        /\ view' = IF Len(got.value) > 0
                   THEN render_view(got.value, selected_models, selected_years)
                   ELSE NoView
        /\ fetches' = got.executed
        \* load_data_from_sheet.clear(); st.rerun()
        /\ cache' = IF clicked THEN NoEntry ELSE got.entry
        /\ rerun' = clicked
        /\ lastOp' = Op(IF clicked THEN "reload" ELSE "dashboard", << >>, << >>,
                        got.executed = 1 /\ fetch_failed(outcome))
        /\ result' = IF got.executed = 0 THEN "Cached" ELSE outcome.kind
        /\ UNCHANGED <<conn, users, logged_in, user_email, user_name, now, registered>>

\* time passes between two interactions
Tick ==
    /\ ~rerun
    /\ now + TickSeconds <= MaxTicks * TickSeconds
    /\ now' = now + TickSeconds
    /\ lastOp' = Op("tick", << >>, << >>, FALSE)
    /\ result' = "tick"
    /\ UNCHANGED <<conn, users, logged_in, user_email, user_name, cache, rerun,
                   df, view, fetches, registered>>

\* the login form is submitted with some email and password
LoginSubmit ==
    /\ ~logged_in /\ ~rerun
    /\ \E typed \in EmailInputs, password \in LoginPasswords, fault \in BOOLEAN :
          Login(typed, password, fault)

\* the register form is submitted with some name, email and passwords
RegisterSubmit ==
    /\ ~logged_in /\ ~rerun
    /\ \E name \in NameInputs, typed \in EmailInputs :
        \E password \in (IF passwords_read(name, typed) THEN PasswordInputs ELSE {Pw1}),
           password_confirm \in (IF passwords_read(name, typed) THEN ConfirmInputs ELSE {Pw1}) :
          \E salt \in (IF register_valid(name, typed, password, password_confirm)
                       THEN Salts ELSE {"s1"}),
             fault \in (IF register_valid(name, typed, password, password_confirm)
                        THEN BOOLEAN ELSE {FALSE}) :
             Register(name, typed, password, password_confirm, salt, fault)

\* the script runs its dashboard branch with some filter selection
DashboardRun ==
    /\ logged_in
    /\ \E outcome \in (IF is_fresh(cache, now) THEN {NoFetch} ELSE FetchOutcomes) :
          \E selected_models \in SUBSET all_models(cached_load(cache, now, outcome).value),
             selected_years \in SUBSET all_years(cached_load(cache, now, outcome).value),
             reload \in BOOLEAN :
             Dashboard(outcome, selected_models, selected_years, reload)

Next ==
    \/ LoginSubmit
    \/ RegisterSubmit
    \/ Logout
    \/ DashboardRun
    \/ Tick

Spec == Init /\ [][Next]_vars

(***************************************************************************)
(* The credential store called directly, without the forms: create_user    *)
(* and get_user + verify_password with arguments of any shape.             *)
(***************************************************************************)
StoreEmails == {EmailA, EmailAMixed, EmailOther}
StorePasswords == {Pw1, PwShort}

StoreOp(op, email, password, fault) ==
    [op |-> op, email |-> email, mixed |-> email # LowerOf[email],
     password |-> password, fault |-> fault]

CallCreateUser(email, password, name, salt, fault) ==
    LET made == create_user(email, password, name, salt, fault)
    IN  /\ conn \/ (email = EmailA /\ password = Pw1 /\ salt = "s1" /\ ~fault)
        /\ fault => salt = "s1"
        /\ users' = made.table
        /\ result' = made.ret
        /\ registered' =
              IF made.ret = "True"
              THEN [e \in DOMAIN registered \cup {email} |->
                       IF e = email THEN password ELSE registered[e]]
              ELSE registered
        /\ lastOp' = StoreOp("create_user", email, password, fault)
        /\ UNCHANGED <<conn, logged_in, user_email, user_name, cache, now, rerun, df, view,
                       fetches>>

\* get_user(email), then verify_password on the row found
CallAuthenticate(email, password, fault) ==
    LET user == get_user(email, fault)
    IN  /\ conn \/ (email = EmailA /\ password = Pw1 /\ ~fault)
        /\ result' = IF ~user.found THEN "NotFound"
                     ELSE IF verify_password(password, user.password_hash) THEN "Success"
                     ELSE "WrongPassword"
        /\ lastOp' = StoreOp("authenticate", email, password, fault)
        /\ UNCHANGED <<conn, users, registered, logged_in, user_email, user_name, cache, now,
                       rerun, df, view, fetches>>

CreateUserCall ==
    \E email \in StoreEmails, password \in StorePasswords, salt \in Salts, fault \in BOOLEAN :
        CallCreateUser(email, password, "Ana", salt, fault)

AuthenticateCall ==
    \E email \in StoreEmails, password \in StorePasswords, fault \in BOOLEAN :
        CallAuthenticate(email, password, fault)

NextStore == CreateUserCall \/ AuthenticateCall

SpecStore == Init /\ [][NextStore]_vars

(***************************************************************************)
(* Properties.                                                             *)
(***************************************************************************)
DashboardOps == {"dashboard", "reload"}
ValidationFailures == {"DomainNotAllowed", "EmptyFields", "PasswordMismatch", "PasswordTooShort"}

\* C1: a run of load_data_from_sheet() with no cached snapshot executes the fetch
\* exactly once; a run while the snapshot is younger than 600 seconds executes it
\* zero times and returns the cached snapshot; load_data_from_sheet.clear() leaves
\* no snapshot, so the run after it executes the fetch exactly once.
CachedFetchContract ==
    [][lastOp'.op \in DashboardOps =>
          /\ ~cache.present => fetches' = 1
          /\ (cache.present /\ now - cache.stamp < TTL) =>
                (fetches' = 0 /\ df'.rows = cache.value)
          /\ lastOp'.op = "reload" => ~cache'.present
          /\ (lastOp.op = "reload" /\ rerun) => fetches' = 1]_vars

\* a run at a later time than the fetch, served from the cache without fetching
CachedFetchWitness ==
    /\ lastOp.op = "dashboard"
    /\ fetches = 0
    /\ cache.present /\ now > cache.stamp /\ now - cache.stamp < TTL
    /\ Len(cache.value) > 0
    /\ df.rows = cache.value

\* C2: when the fetch of a run fails, the cache stays Stale (no entry younger than
\* the TTL), and the run returns the previous snapshot if there is one, else an
\* empty sequence.
FailedFetchStaysStale ==
    [][(lastOp'.op \in DashboardOps /\ lastOp'.fault) =>
          /\ ~(cache'.present /\ now' - cache'.stamp < TTL)
          /\ df'.rows = cache.value]_vars

\* C3: a login with the email and the password of a successful registration
\* succeeds whenever the store answers, whatever was registered or attempted
\* in between.
RegisterThenAuthenticate ==
    [][(/\ lastOp'.op = "login"
        /\ ~lastOp'.fault
        /\ lastOp'.email \in DOMAIN registered
        /\ registered[lastOp'.email] = lastOp'.password) =>
          (result' = "Success" /\ logged_in' /\ user_email' = lastOp'.email)]_vars

\* a successful login while two users are registered
RegisterThenAuthenticateWitness ==
    /\ lastOp.op = "login"
    /\ result = "Success"
    /\ logged_in
    /\ user_email = EmailA
    /\ DOMAIN registered = {EmailA, EmailB}
    /\ registered[EmailA] = lastOp.password

\* C4: a registration that reaches create_user with an email already stored
\* leaves the users table as it was and, when the store answers, returns
\* "Email ja cadastrado." (DuplicateIdentity).
DuplicateRegistrationRejected ==
    [][(lastOp'.op = "register" /\ lastOp'.email \in DOMAIN users) =>
          /\ users' = users
          /\ result' # "True"
          /\ (result' \notin ValidationFailures /\ ~lastOp'.fault) =>
                result' = "Email ja cadastrado."]_vars

\* a second registration of a stored email was rejected as a duplicate
DuplicateRegistrationWitness ==
    /\ lastOp.op = "register"
    /\ result = "Email ja cadastrado."
    /\ lastOp.email \in DOMAIN users

\* C5: a login with a password different from the one registered for the email
\* never sets the logged-in session, and takes the WrongPassword branch
\* whenever the store answers.
WrongPasswordNeverSucceeds ==
    [][(/\ lastOp'.op = "login"
        /\ lastOp'.email \in DOMAIN registered
        /\ registered[lastOp'.email] # lastOp'.password) =>
          /\ ~logged_in'
          /\ result' # "Success"
          /\ ~lastOp'.fault => result' = "WrongPassword"]_vars

\* a login attempt on a registered email with another password was refused
WrongPasswordWitness ==
    /\ lastOp.op = "login"
    /\ result = "WrongPassword"
    /\ lastOp.email \in DOMAIN registered
    /\ registered[lastOp.email] # lastOp.password
    /\ ~logged_in

\* C6: identity is case-insensitive on email: every stored email is lower-case; a
\* login typed with upper-case letters succeeds when its lower-case form is
\* registered with the password typed; a registration typed with upper-case
\* letters whose lower-case form is stored is a duplicate.
CaseInsensitiveIdentity ==
    [][/\ \A e \in DOMAIN users' : e \in {LowerOf[typed] : typed \in EmailInputs}
       /\ (/\ lastOp'.op = "login"
           /\ lastOp'.mixed
           /\ ~lastOp'.fault
           /\ lastOp'.email \in DOMAIN registered
           /\ registered[lastOp'.email] = lastOp'.password) =>
             (result' = "Success" /\ user_email' = lastOp'.email)
       /\ (/\ lastOp'.op = "register"
           /\ lastOp'.mixed
           /\ ~lastOp'.fault
           /\ lastOp'.email \in DOMAIN users
           /\ result' \notin ValidationFailures) =>
             (result' = "Email ja cadastrado." /\ users' = users)]_vars

\* a login typed with upper-case letters succeeded for the user stored in lower case
CaseInsensitiveWitness ==
    /\ lastOp.op = "login"
    /\ lastOp.mixed
    /\ result = "Success"
    /\ user_email = EmailA

\* C7: create_user itself inserts no record whose email is outside the allowed
\* domains or whose password is shorter than 6 characters.
StoreEnforcesRegistrationRules ==
    \A e \in DOMAIN users :
        /\ is_domain_allowed(e)
        /\ Len(registered[e]) >= MinPasswordLen

\* C8: every fetched row whose price cell is "R$ 1.234,56" has the numeric price
\* 1234.56 (100 times it is 123456), and every row whose price cell is "N/A" is
\* kept with a null numeric price.
PriceParsedToValue ==
    \A i \in 1..Len(cache.value) :
        /\ cache.value[i].Preco = <<"R", "$", " ", "1", ".", "2", "3", "4", ",", "5", "6">> =>
              (~cache.value[i].PrecoNumerico.isnan
               /\ cache.value[i].PrecoNumerico.v * 100 = 123456)
        /\ cache.value[i].Preco = <<"N", "/", "A">> => cache.value[i].PrecoNumerico.isnan

\* C9: every failure is returned as an explicit failure result; in particular a
\* failure of the store during a login is reported as a result of its own,
\* distinguishable from NotFound.
StoreFailureDistinctFromNotFound ==
    (lastOp.op = "login" /\ lastOp.fault) => result # "NotFound"

\* C10: filtering and aggregation leave the cached snapshot alone: after a run
\* the cache holds the frame load_data_from_sheet() returned, not a derived
\* view, and a run served from the cache leaves the entry as it was.
ViewsLeaveSnapshotUnchanged ==
    [][lastOp'.op = "dashboard" =>
          /\ cache'.present
          /\ cache'.value = df'.rows
          /\ (cache.present /\ now - cache.stamp < TTL) => cache' = cache]_vars

\* a run served from the cache whose filter kept only part of the rows
ViewsLeaveSnapshotWitness ==
    /\ lastOp.op = "dashboard"
    /\ fetches = 0
    /\ view.shown
    /\ Len(view.df_filtered) > 0
    /\ Len(view.df_filtered) < Len(df.rows)
    /\ cache.value = df.rows

\* C11: the session invariant.  logged_in becomes true only by a login attempt
\* that found a stored user whose password hash verified, and from then until
\* the logout user_email is that user's stored email; load_data_from_sheet is
\* called only by a run in which logged_in is true; a login attempt that fails
\* leaves logged_in, user_email and user_name as they were; the logout sets
\* logged_in to false and user_email and user_name to None.
SessionInvariant ==
    [][/\ (logged_in' /\ ~logged_in) =>
             /\ lastOp'.op = "login" /\ result' = "Success"
             /\ lastOp'.email \in DOMAIN users
             /\ verify_password(lastOp'.password, users[lastOp'.email].password_hash)
             /\ user_email' = lastOp'.email
             /\ user_name' = users[lastOp'.email].name
       /\ (logged_in' /\ logged_in) => (user_email' = user_email /\ user_name' = user_name)
       /\ logged_in' => user_email' \in DOMAIN users'
       /\ (df'.loaded \/ fetches' > 0) => (logged_in /\ logged_in')
       /\ lastOp'.op \in DashboardOps => (logged_in /\ df'.loaded)
       /\ (lastOp'.op = "login" /\ result' # "Success") =>
             (~logged_in' /\ UNCHANGED <<logged_in, user_email, user_name>>)
       /\ lastOp'.op = "logout" =>
             (~logged_in' /\ user_email' = NoneStr /\ user_name' = "None"
              /\ ~df'.loaded /\ fetches' = 0)]_vars

\* the second stored user is logged in and their run executed the fetch
SessionInvariantWitness ==
    /\ logged_in
    /\ user_email = EmailB
    /\ DOMAIN users = {EmailA, EmailB}
    /\ user_name = users[EmailB].name
    /\ lastOp.op = "dashboard"
    /\ df.loaded
    /\ fetches = 1

====
